---- MODULE Spec2Model ----
(***************************************************************************)
(* Context-conditioned speech generation sessions of the CSM applications: *)
(* Character (character_chat), VoiceGame (voice_game) and StoryGenerator   *)
(* (story_generator).  The generative model, audio loading and the sample  *)
(* data are external; a generated audio tensor is a one-sample buffer      *)
(* whose sample is its serial number among the buffers generate() returned.*)
(***************************************************************************)
EXTENDS Integers, Sequences, FiniteSets, TLC

\* ------------------------------------------------------------------ bounds
\* audio buffers generate() returns in one run of the voice game
MaxGen == 5
\* audio buffers generate() returns in one run of the character chat
MaxResponses == 3
\* audio buffers generate() returns in one single-character conversation
MaxSolo == 5
\* longest list of extra context segments a caller passes
MaxExtra == 2
\* longest dialogue script handed to generate_dialogue_sequence
MaxScript == 2
\* longest text over TextAlphabet handed to _split_story
MaxText == 4
\* most words in a text of long words handed to _split_story
MaxWords == 3
\* longest list of segments handed to the audio utilities
MaxSegments == 3
\* longest pause, in milliseconds, handed to concatenate_with_pauses
MaxPause == 2
\* audio buffers generate() returns in one run with several sessions side by side
MaxSessionGen == 3
\* longest list a caller keeps after get_conversation_history
MaxHeld == 3

\* ------------------------------------------------------------ value space
\* texts are tuples of one-character strings; audio buffers are tuples of samples

\* Segment(text, speaker, audio) of generator.py, as the applications build it
Segment(text, speaker, audio) == [text |-> text, speaker |-> speaker, audio |-> audio]

\* Python's None where a Segment is expected (self.prompt / self.narrator_prompt)
NoneSegment == [text |-> <<>>, speaker |-> -1, audio |-> <<>>]

\* the value of self.generator: None, or the object load_csm_1b returned
NoGenerator == "None"
Bound == "csm_1b"

\* exceptions reaching the caller of an operation, by type and origin
Ok == "ok"
NotInitialized == "RuntimeError: not initialized"
UnknownSpeaker == "ValueError: Character ID not found"
KeyErr == "KeyError"
GenerationFailure == "GenerationFailure"
ModelLoadFailure == "load_csm_1b failed"
AudioLoadFailure == "load_prompt_audio failed"
EmptyCat == "RuntimeError: torch.cat of an empty list"

\* s[-n:] of a Python list, n > 0
LastN(s, n) == IF Len(s) <= n THEN s ELSE SubSeq(s, Len(s) - n + 1, Len(s))

\* one generate() call as the boundary saw it
Call(text, speaker, context, ok) ==
    [text |-> text, speaker |-> speaker, context |-> context, ok |-> ok]

\* what an operation did: exception or Ok, the generate() calls it issued in
\* order, the segments and audio it returned, the history after it
Outcome(result, calls, returned, audio, history, clk) ==
    [result |-> result, calls |-> calls, returned |-> returned, audio |-> audio,
     history |-> history, clock |-> clk]

\* the applications the launcher can run; one runs at a time
Apps == { "character_chat", "voice_game", "story_generator" }

\* segments a caller owns and may pass as additional context (not session history)
UserSegment(i) == Segment(<<"u">>, 7, << 0 - (70 + i) >>)

\* the `context` argument of respond / character_speak (None is the empty list)
Extras == { [i \in 1..n |-> UserSegment(i)] : n \in 0..MaxExtra }

\* --------------------------------------------------------- character_chat
\* the characters of create_sample_characters, by list index (= speaker_id)
Chars == { 0, 1 }
speaker_id(c) == c
prompt_text(c) == IF c = 0 THEN <<"p", "a">> ELSE <<"p", "b">>
\* the (speaker index, text) pairs a conversation draws its turns from
dialogue == { <<0, <<"a">> >>, <<1, <<"b">> >> }

\* load_prompt_audio(path, sample_rate) of a character's prompt file
load_prompt_audio(k) == << 0 - (k + 1) >>

\* Character._create_prompt
create_prompt(c) == Segment(prompt_text(c), speaker_id(c), load_prompt_audio(c))

\* a respond that records a response although generate() raised
respond_appendsOnFailure(gen, prompt, history, clk, spk, text, context, use_history, genOk) ==
    IF gen = NoGenerator
    THEN Outcome(NotInitialized, <<>>, <<>>, <<>>, history, clk)
    ELSE LET full_context == <<prompt>> \o (IF use_history THEN history ELSE <<>>) \o context
             response == Segment(text, spk, <<clk + 1>>)
         IN  IF genOk
             THEN Outcome(Ok, <<Call(text, spk, full_context, TRUE)>>, <<response>>,
                          response.audio, Append(history, response), clk + 1)
             ELSE Outcome(GenerationFailure, <<Call(text, spk, full_context, FALSE)>>,
                          <<>>, <<>>, Append(history, Segment(text, spk, <<>>)), clk)

\* a respond that puts the new response at the front of the history
respond_prepends(gen, prompt, history, clk, spk, text, context, use_history, genOk) ==
    IF gen = NoGenerator
    THEN Outcome(NotInitialized, <<>>, <<>>, <<>>, history, clk)
    ELSE LET full_context == <<prompt>> \o (IF use_history THEN history ELSE <<>>) \o context
             response == Segment(text, spk, <<clk + 1>>)
         IN  IF genOk
             THEN Outcome(Ok, <<Call(text, spk, full_context, TRUE)>>, <<response>>,
                          response.audio, <<response>> \o history, clk + 1)
             ELSE Outcome(GenerationFailure, <<Call(text, spk, full_context, FALSE)>>,
                          <<>>, <<>>, history, clk)

\* a respond that lists the history ahead of the voice prompt
RespondContext_historyFirst(prompt, history, context, use_history) ==
    (IF use_history THEN history ELSE <<>>) \o <<prompt>> \o context

\* Character.respond, lines 63-69: prompt, then history, then additional context
RespondContext(prompt, history, context, use_history) ==
    <<prompt>> \o (IF use_history THEN history ELSE <<>>) \o context

\* a respond without the check of lines 59-60
respond_unchecked(gen, prompt, history, clk, spk, text, context, use_history, genOk) ==
    LET full_context == RespondContext(prompt, history, context, use_history)
        response == Segment(text, spk, <<clk + 1>>)
    IN  IF genOk
        THEN Outcome(Ok, <<Call(text, spk, full_context, TRUE)>>, <<response>>,
                     response.audio, Append(history, response), clk + 1)
        ELSE Outcome(GenerationFailure, <<Call(text, spk, full_context, FALSE)>>,
                     <<>>, <<>>, history, clk)

\* a respond that records the response only when it used the history
respond_skipsHistoryless(gen, prompt, history, clk, spk, text, context, use_history, genOk) ==
    IF gen = NoGenerator
    THEN Outcome(NotInitialized, <<>>, <<>>, <<>>, history, clk)
    ELSE LET full_context == RespondContext(prompt, history, context, use_history)
             response == Segment(text, spk, <<clk + 1>>)
         IN  IF genOk
             THEN Outcome(Ok, <<Call(text, spk, full_context, TRUE)>>, <<response>>,
                          response.audio,
                          IF use_history THEN Append(history, response) ELSE history,
                          clk + 1)
             ELSE Outcome(GenerationFailure, <<Call(text, spk, full_context, FALSE)>>,
                          <<>>, <<>>, history, clk)

\* Character.respond: gen is self.generator, genOk whether generate() returns
respond(gen, prompt, history, clk, spk, text, context, use_history, genOk) ==
    IF gen = NoGenerator
    THEN Outcome(NotInitialized, <<>>, <<>>, <<>>, history, clk)
    ELSE LET full_context == RespondContext(prompt, history, context, use_history)
             response == Segment(text, spk, <<clk + 1>>)
         IN  IF genOk
             THEN Outcome(Ok, <<Call(text, spk, full_context, TRUE)>>, <<response>>,
                          response.audio, Append(history, response), clk + 1)
             ELSE Outcome(GenerationFailure, <<Call(text, spk, full_context, FALSE)>>,
                          <<>>, <<>>, history, clk)

\* Character.get_info: the fields that depend on the character's state
get_info(c, history) ==
    [speaker_id |-> speaker_id(c), conversation_length |-> Len(history)]

\* a get_conversation_history that returns the history list itself
get_conversation_history_noCopy(history) == [list |-> history, shared |-> TRUE]

\* Character.get_conversation_history: a copy of the list, so the list the
\* caller gets is not the object the character appends to
get_conversation_history(history) == [list |-> history, shared |-> FALSE]

\* ------------------------------------------------------------- voice_game
\* the ids of character_prompts (create_game_characters), a script line's fields
GameIds == { 0, 1 }
\* an id absent from character_prompts
Unregistered == 99
character_name(id) == IF id = 0 THEN "Hero" ELSE "Villain"
character_text(id) == IF id = 0 THEN <<"g", "a">> ELSE <<"g", "b">>

\* the dialogue lines scripts and character_speak calls are drawn from
Lines == { [character_id |-> 0, text |-> <<"a">>],
           [character_id |-> 1, text |-> <<"b">>],
           [character_id |-> Unregistered, text |-> <<"a">>] }

\* dialogue scripts of at most MaxScript lines
Scripts == UNION { [1..n -> Lines] : n \in 0..MaxScript }

\* VoiceGame._create_characters: one entry per id of character_prompts
create_characters ==
    [id \in GameIds |->
        [name |-> character_name(id),
         prompt |-> Segment(character_text(id), id, load_prompt_audio(10 + id))]]

\* the empty dict self.characters starts as
NoCharacters == [id \in {} |-> NoneSegment]

\* a character_speak that passes the whole dialogue history
SpeakContext_wholeHistory(prompt, history, context) ==
    <<prompt>> \o history \o context

\* VoiceGame.character_speak, lines 69-76: the character's prompt, the last
\* three segments of the dialogue history, then the additional context
SpeakContext(prompt, history, context) ==
    <<prompt>> \o LastN(history, 3) \o context

\* a character_speak that records the line before looking the character up
character_speak_appendFirst(gen, chars, history, clk, character_id, text, context, genOk) ==
    IF gen = NoGenerator
    THEN Outcome(NotInitialized, <<>>, <<>>, <<>>, history, clk)
    ELSE IF character_id \notin DOMAIN chars
    THEN Outcome(UnknownSpeaker, <<>>, <<>>, <<>>,
                 Append(history, Segment(text, character_id, <<>>)), clk)
    ELSE LET full_context == SpeakContext(chars[character_id].prompt, history, context)
             segment == Segment(text, character_id, <<clk + 1>>)
         IN  IF genOk
             THEN Outcome(Ok, <<Call(text, character_id, full_context, TRUE)>>, <<segment>>,
                          segment.audio, Append(history, segment), clk + 1)
             ELSE Outcome(GenerationFailure, <<Call(text, character_id, full_context, FALSE)>>,
                          <<>>, <<>>, history, clk)

\* VoiceGame.character_speak
character_speak(gen, chars, history, clk, character_id, text, context, genOk) ==
    IF gen = NoGenerator
    THEN Outcome(NotInitialized, <<>>, <<>>, <<>>, history, clk)
    ELSE IF character_id \notin DOMAIN chars
    THEN Outcome(UnknownSpeaker, <<>>, <<>>, <<>>, history, clk)
    ELSE LET full_context == SpeakContext(chars[character_id].prompt, history, context)
             segment == Segment(text, character_id, <<clk + 1>>)
         IN  IF genOk
             THEN Outcome(Ok, <<Call(text, character_id, full_context, TRUE)>>, <<segment>>,
                          segment.audio, Append(history, segment), clk + 1)
             ELSE Outcome(GenerationFailure, <<Call(text, character_id, full_context, FALSE)>>,
                          <<>>, <<>>, history, clk)

\* a concatenation that puts each later segment ahead of the earlier ones
RECURSIVE cat_reversed(_)
cat_reversed(segments) ==
    IF segments = <<>> THEN <<>> ELSE cat_reversed(Tail(segments)) \o Head(segments).audio

\* torch.cat of the segments' audio, in list order; torch.cat([]) is undefined here
RECURSIVE cat(_)
cat(segments) ==
    IF segments = <<>> THEN <<>> ELSE Head(segments).audio \o cat(Tail(segments))

\* concatenate_audio_segments: torch.cat raises on an empty list of tensors
concatenate_audio_segments(segments) ==
    IF segments = <<>> THEN [result |-> EmptyCat, audio |-> <<>>]
    ELSE [result |-> Ok, audio |-> cat(segments)]

\* the sample rate concatenate_with_pauses assumes for every segment
sample_rate == 24000

\* add_silence: int(duration_ms * sample_rate / 1000) zero samples
add_silence(duration_ms, rate) == [i \in 1..((duration_ms * rate) \div 1000) |-> 0]

\* concatenate_with_pauses, the loop of lines 83-84 over segments[1:]
RECURSIVE pause_loop(_, _, _)
pause_loop(result, silence, rest) ==
    IF rest = <<>> THEN result
    ELSE pause_loop(result \o silence \o Head(rest).audio, silence, Tail(rest))

\* a concatenation that also puts a pause after the last segment
concatenate_with_pauses_trailing(segments, pause_duration_ms) ==
    IF segments = <<>> THEN <<>>
    ELSE LET silence == add_silence(pause_duration_ms, sample_rate)
         IN  pause_loop(segments[1].audio, silence, Tail(segments)) \o silence

\* concatenate_with_pauses: torch.tensor([]) for an empty list
concatenate_with_pauses(segments, pause_duration_ms) ==
    IF segments = <<>> THEN <<>>
    ELSE LET silence == add_silence(pause_duration_ms, sample_rate)
         IN  pause_loop(segments[1].audio, silence, Tail(segments))

\* VoiceGame.generate_dialogue_sequence, the loop from line i on and the final
\* concatenation; failAt is the line whose generate() call raises (0: none)
RECURSIVE dialogue_loop(_, _, _, _, _, _, _, _, _)
dialogue_loop(gen, chars, dialogue_script, i, failAt, history, clk, calls, segments) ==
    IF i > Len(dialogue_script)
    THEN LET full == concatenate_audio_segments(segments)
         IN  IF full.result = Ok
             THEN Outcome(Ok, calls, segments, full.audio, history, clk)
             ELSE Outcome(full.result, calls, <<>>, <<>>, history, clk)
    ELSE LET line == dialogue_script[i]
         IN  IF line.character_id \notin DOMAIN chars
             THEN Outcome(KeyErr, calls, <<>>, <<>>, history, clk)
             ELSE LET out == character_speak(gen, chars, history, clk, line.character_id,
                                             line.text, <<>>, i # failAt)
                  IN  IF out.result # Ok
                      THEN Outcome(out.result, calls \o out.calls, <<>>, <<>>,
                                   out.history, out.clock)
                      ELSE dialogue_loop(gen, chars, dialogue_script, i + 1, failAt,
                                         out.history, out.clock, calls \o out.calls,
                                         segments \o out.returned)

\* VoiceGame.generate_dialogue_sequence
generate_dialogue_sequence(gen, chars, history, clk, dialogue_script, failAt) ==
    IF gen = NoGenerator
    THEN Outcome(NotInitialized, <<>>, <<>>, <<>>, history, clk)
    ELSE dialogue_loop(gen, chars, dialogue_script, 1, failAt, history, clk, <<>>, <<>>)

\* --------------------------------------------------------- story_generator
\* str.isspace() characters of the texts modelled
Whitespace == { " ", "\n" }
\* the characters of the class [.!?]
Terminal == { ".", "!", "?" }

\* str.lstrip(), str.rstrip(), str.strip()
RECURSIVE lstrip(_)
lstrip(s) == IF s # <<>> /\ Head(s) \in Whitespace THEN lstrip(Tail(s)) ELSE s
RECURSIVE rstrip(_)
rstrip(s) ==
    IF s # <<>> /\ s[Len(s)] \in Whitespace THEN rstrip(SubSeq(s, 1, Len(s) - 1)) ELSE s
strip(s) == rstrip(lstrip(s))

\* a split that never starts a fresh piece: each piece repeats the text before it
RECURSIVE split_blank_keepsCur(_, _)
split_blank_keepsCur(s, cur) ==
    IF s = <<>> THEN <<cur>>
    ELSE IF Len(s) >= 2 /\ s[1] = "\n" /\ s[2] = "\n"
    THEN <<cur>> \o split_blank_keepsCur(SubSeq(s, 3, Len(s)), cur)
    ELSE split_blank_keepsCur(Tail(s), Append(cur, Head(s)))

\* a split at every newline instead of every pair of newlines
RECURSIVE split_blank_singleNewline(_, _)
split_blank_singleNewline(s, cur) ==
    IF s = <<>> THEN <<cur>>
    ELSE IF s[1] = "\n"
    THEN <<cur>> \o split_blank_singleNewline(Tail(s), <<>>)
    ELSE split_blank_singleNewline(Tail(s), Append(cur, Head(s)))

\* story_text.split("\n\n"): cut at each occurrence of two newlines, left to
\* right; cur is the piece read so far
RECURSIVE split_blank(_, _)
split_blank(s, cur) ==
    IF s = <<>> THEN <<cur>>
    ELSE IF Len(s) >= 2 /\ s[1] = "\n" /\ s[2] = "\n"
    THEN <<cur>> \o split_blank(SubSeq(s, 3, Len(s)), <<>>)
    ELSE split_blank(Tail(s), Append(cur, Head(s)))

\* a split on the pattern [.]+ : question and exclamation marks do not cut
RECURSIVE re_split_periodOnly(_, _, _)
re_split_periodOnly(s, cur, inRun) ==
    IF s = <<>> THEN <<cur>>
    ELSE IF Head(s) = "."
    THEN IF inRun THEN re_split_periodOnly(Tail(s), cur, TRUE)
         ELSE <<cur>> \o re_split_periodOnly(Tail(s), <<>>, TRUE)
    ELSE re_split_periodOnly(Tail(s), Append(cur, Head(s)), FALSE)

\* re.split(r'[.!?]+', story_text): cut at each maximal run of terminal marks
RECURSIVE re_split(_, _, _)
re_split(s, cur, inRun) ==
    IF s = <<>> THEN <<cur>>
    ELSE IF Head(s) \in Terminal
    THEN IF inRun THEN re_split(Tail(s), cur, TRUE)
         ELSE <<cur>> \o re_split(Tail(s), <<>>, TRUE)
    ELSE re_split(Tail(s), Append(cur, Head(s)), FALSE)

\* story_text.split(): skip whitespace, take the characters up to the next
\* whitespace or the end as a word, and go on after it
RECURSIVE split_words(_)
split_words(s) ==
    IF \A k \in 1..Len(s) : s[k] \in Whitespace THEN <<>>
    ELSE LET i == CHOOSE k \in 1..Len(s) :
                      s[k] \notin Whitespace /\ \A m \in 1..(k - 1) : s[m] \in Whitespace
             j == CHOOSE k \in i..Len(s) :
                      /\ k = Len(s) \/ s[k + 1] \in Whitespace
                      /\ \A m \in i..k : s[m] \notin Whitespace
         IN  <<SubSeq(s, i, j)>> \o split_words(SubSeq(s, j + 1, Len(s)))

\* " ".join(words)
RECURSIVE join(_)
join(words) ==
    IF words = <<>> THEN <<>>
    ELSE IF Len(words) = 1 THEN words[1]
    ELSE words[1] \o <<" ">> \o join(Tail(words))

\* the comprehension without its `if p.strip()` filter
RECURSIVE kept_unfiltered(_, _)
kept_unfiltered(pieces, suffix) ==
    IF pieces = <<>> THEN <<>>
    ELSE << strip(Head(pieces)) \o suffix >> \o kept_unfiltered(Tail(pieces), suffix)

\* [f(p) for p in pieces if p.strip()]
RECURSIVE kept(_, _)
kept(pieces, suffix) ==
    IF pieces = <<>> THEN <<>>
    ELSE (IF strip(Head(pieces)) # <<>> THEN << strip(Head(pieces)) \o suffix >> ELSE <<>>)
         \o kept(Tail(pieces), suffix)

\* the rough character limit per chunk of the "length" method
max_chars == 200

\* a word loop that starts the new chunk empty, losing the word that did not fit
RECURSIVE pack_dropsWord(_, _, _, _, _)
pack_dropsWord(words, limit, chunks, current_chunk, current_length) ==
    IF words = <<>>
    THEN IF current_chunk # <<>> THEN Append(chunks, join(current_chunk)) ELSE chunks
    ELSE LET word == Head(words)
         IN  IF current_length + Len(word) > limit /\ current_chunk # <<>>
             THEN pack_dropsWord(Tail(words), limit, Append(chunks, join(current_chunk)),
                                 <<>>, 0)
             ELSE pack_dropsWord(Tail(words), limit, chunks, Append(current_chunk, word),
                                 current_length + Len(word) + 1)

\* the word loop of the "length" method, lines 115-125
RECURSIVE pack(_, _, _, _, _)
pack(words, limit, chunks, current_chunk, current_length) ==
    IF words = <<>>
    THEN IF current_chunk # <<>> THEN Append(chunks, join(current_chunk)) ELSE chunks
    ELSE LET word == Head(words)
         IN  IF current_length + Len(word) > limit /\ current_chunk # <<>>
             THEN pack(Tail(words), limit, Append(chunks, join(current_chunk)),
                       <<word>>, Len(word))
             ELSE pack(Tail(words), limit, chunks, Append(current_chunk, word),
                       current_length + Len(word) + 1)

\* a _split_story whose default branch trims the text
split_story_limit_stripsWhole(story_text, method, limit) ==
    IF method = "paragraph" THEN kept(split_blank(story_text, <<>>), <<>>)
    ELSE IF method = "sentence" THEN kept(re_split(story_text, <<>>, FALSE), <<".">>)
    ELSE IF method = "length" THEN pack(split_words(story_text), limit, <<>>, <<>>, 0)
    ELSE <<strip(story_text)>>

\* StoryGenerator._split_story with the character limit as a parameter
split_story_limit(story_text, method, limit) ==
    IF method = "paragraph" THEN kept(split_blank(story_text, <<>>), <<>>)
    ELSE IF method = "sentence" THEN kept(re_split(story_text, <<>>, FALSE), <<".">>)
    ELSE IF method = "length" THEN pack(split_words(story_text), limit, <<>>, <<>>, 0)
    ELSE <<story_text>>

\* StoryGenerator._split_story
split_story(story_text, method) == split_story_limit(story_text, method, max_chars)

narrator_prompt_text == <<"n">>

\* StoryGenerator._create_narrator_prompt: the narrator is always speaker 0
create_narrator_prompt == Segment(narrator_prompt_text, 0, load_prompt_audio(20))

\* a context built while the previous chunk is still being generated: its
\* segment is not among the last 2
StoryContext_stale(context, audio_segments) ==
    context \o (IF audio_segments = <<>> THEN <<>>
                ELSE LastN(SubSeq(audio_segments, 1, Len(audio_segments) - 1), 2))

\* generate_story_audio, line 73: the narrator prompt and the last 2 segments
StoryContext(context, audio_segments) == context \o LastN(audio_segments, 2)

\* generate_story_audio, the chunk loop from chunk i on and the concatenation
RECURSIVE story_loop(_, _, _, _, _, _, _)
story_loop(context, chunks, i, failAt, clk, calls, audio_segments) ==
    IF i > Len(chunks)
    THEN LET full == concatenate_audio_segments(audio_segments)
         IN  IF full.result = Ok
             THEN Outcome(Ok, calls, audio_segments, full.audio, <<>>, clk)
             ELSE Outcome(full.result, calls, <<>>, <<>>, <<>>, clk)
    ELSE LET call == Call(chunks[i], 0, StoryContext(context, audio_segments), i # failAt)
             segment == Segment(chunks[i], 0, <<clk + 1>>)
         IN  IF i = failAt
             THEN Outcome(GenerationFailure, Append(calls, call), <<>>, <<>>, <<>>, clk)
             ELSE story_loop(context, chunks, i + 1, failAt, clk + 1,
                             Append(calls, call), Append(audio_segments, segment))

\* a generate_story_audio that starts from the last segment generated before
generate_story_audio_carriesOver(gen, prompt, clk, story_text, chunk_method, failAt) ==
    IF gen = NoGenerator
    THEN Outcome(NotInitialized, <<>>, <<>>, <<>>, <<>>, clk)
    ELSE story_loop(<<prompt>> \o (IF clk > 0 THEN << Segment(<<"a">>, 0, <<clk>>) >>
                                   ELSE <<>>),
                    split_story(story_text, chunk_method), 1, failAt, clk, <<>>, <<>>)

\* StoryGenerator.generate_story_audio
generate_story_audio(gen, prompt, clk, story_text, chunk_method, failAt) ==
    IF gen = NoGenerator
    THEN Outcome(NotInitialized, <<>>, <<>>, <<>>, <<>>, clk)
    ELSE story_loop(<<prompt>>, split_story(story_text, chunk_method), 1, failAt,
                    clk, <<>>, <<>>)

\* the story texts narrated
Stories == { <<>>,
             <<"a", ".", " ", "b", "!">>,
             <<"a", "\n", "\n", "b", "\n", "\n", "a", "\n", "\n", "b">>,
             <<"a", " ", "b", "\n", "\n", " ", "\n", "\n", "b", "?">> }

Methods == { "paragraph", "sentence", "length", "whole" }

\* the chunk_method names _split_story is called with: the three it knows, the
\* documented fallback name, and names it does not know
PolicyNames == Methods \cup { "Sentence", "" }

\* the characters of the short texts: a letter, two kinds of whitespace, two
\* terminal marks
TextAlphabet == { "a", " ", "\n", ".", "?" }
ShortTexts == UNION { [1..n -> TextAlphabet] : n \in 0..MaxText }

\* texts of one to MaxWords words around the 200-character limit, one space
\* between words
WordLengths == { 1, 199, 200, 201 }
Word(n) == [i \in 1..n |-> "a"]
WordTexts ==
    { join([i \in 1..Len(lens) |-> Word(lens[i])]) :
        lens \in UNION { [1..n -> WordLengths] : n \in 1..MaxWords } }

\* "One. Two! Three?" and "Para one.\n\nPara two."
SentenceSample ==
    << "O", "n", "e", ".", " ", "T", "w", "o", "!", " ", "T", "h", "r", "e", "e", "?" >>
ParagraphSample ==
    << "P", "a", "r", "a", " ", "o", "n", "e", ".", "\n", "\n",
       "P", "a", "r", "a", " ", "t", "w", "o", "." >>

\* the texts of letters, spaces and newlines one character longer than the
\* short texts: long enough for a line of spaces between two letters
ParagraphAlphabet == { "a", " ", "\n" }
ParagraphTexts == [1..(MaxText + 1) -> ParagraphAlphabet]

\* the segments the audio utilities are called with, by their audio: one
\* sample, two samples, and a buffer that itself starts with a zero sample
AudioSegments == { Segment(<<"a">>, 0, <<1>>), Segment(<<"b">>, 1, <<2, 3>>),
                   Segment(<<"a">>, 0, <<0, 4>>) }
SegmentLists == UNION { [1..n -> AudioSegments] : n \in 0..MaxSegments }

\* generator.sample_rate, the rate the segments of a list were generated at:
\* the rate of the CSM model and another rate a generator may report
GeneratorRates == { 16000, 24000 }

VARIABLES
    app,                   \* the application run_application started
    char_generator,        \* Character.generator, per character
    char_prompt,           \* Character.prompt, per character
    conversation_history,  \* Character._conversation_history, per character
    all_responses,         \* demo_multi_character's all_responses
    game_generator,        \* VoiceGame.generator
    characters,            \* VoiceGame.characters
    dialogue_history,      \* VoiceGame.dialogue_history
    story_generator,       \* StoryGenerator.generator
    narrator_prompt,       \* StoryGenerator.narrator_prompt
    clock,                 \* number of audio buffers generate() has returned
    split_call,            \* the last _split_story call: arguments and result
    audio_call,            \* the last audio_utils call: arguments and result
    second_game,           \* a second VoiceGame object: generator, characters, history
    held_history,          \* the list a caller got from get_conversation_history
    last                   \* the last operation: name, session, inputs, outcome

chat_vars == << char_generator, char_prompt, conversation_history, all_responses >>
game_vars == << game_generator, characters, dialogue_history >>
story_vars == << story_generator, narrator_prompt >>
util_vars == << split_call, audio_call >>
peer_vars == << second_game, held_history >>
vars == << app, chat_vars, game_vars, story_vars, util_vars, peer_vars, clock, last >>

\* the record kept of the last operation
Last(op, who, pre, extra, script, out) ==
    [op |-> op, who |-> who, pre |-> pre, extra |-> extra, script |-> script,
     result |-> out.result, calls |-> out.calls, returned |-> out.returned,
     audio |-> out.audio]

NoOutcome == Outcome("none", <<>>, <<>>, <<>>, <<>>, 0)

\* no _split_story call and no audio_utils call has been made
NoSplit == [story_text |-> <<>>, method |-> "none", pending |-> FALSE, chunks |-> <<>>]
NoAudioCall == [op |-> "none", segments |-> <<>>, rate |-> 0, pause_duration_ms |-> 0,
                pending |-> FALSE, result |-> "none", audio |-> <<>>]

\* VoiceGame.__init__: no generator, no characters, an empty history of its own
NewGame == [generator |-> NoGenerator, characters |-> NoCharacters,
            dialogue_history |-> <<>>]

\* the caller holds no list
NoHeld == [who |-> -1, list |-> <<>>, shared |-> FALSE]

\* the state after the application's objects are constructed, with the
\* utility call about to be made, if any
InitWith(apps, splits, audio_calls) ==
    /\ app \in apps
    /\ char_generator = [c \in Chars |-> NoGenerator]
    /\ char_prompt = [c \in Chars |-> NoneSegment]
    /\ conversation_history = [c \in Chars |-> <<>>]
    /\ all_responses = <<>>
    /\ game_generator = NoGenerator
    /\ characters = NoCharacters
    /\ dialogue_history = <<>>
    /\ story_generator = NoGenerator
    /\ narrator_prompt = NoneSegment
    /\ clock = 0
    /\ split_call \in splits
    /\ audio_call \in audio_calls
    /\ second_game = NewGame
    /\ held_history = NoHeld
    /\ last = Last("none", -1, <<>>, <<>>, <<>>, NoOutcome)

InitOf(apps) == InitWith(apps, { NoSplit }, { NoAudioCall })

Init == InitOf(Apps)

\* Character.initialize: load_csm_1b, then _create_prompt; either may raise
CharInitialize(c, modelOk, audioOk) ==
    /\ app = "character_chat"
    /\ char_generator' = IF modelOk THEN [char_generator EXCEPT ![c] = Bound]
                         ELSE char_generator
    /\ char_prompt' = IF modelOk /\ audioOk THEN [char_prompt EXCEPT ![c] = create_prompt(c)]
                      ELSE char_prompt
    /\ last' = Last("initialize", c, conversation_history[c], <<>>, <<>>,
                    Outcome(IF ~modelOk THEN ModelLoadFailure
                            ELSE IF ~audioOk THEN AudioLoadFailure ELSE Ok,
                            <<>>, <<>>, <<>>, conversation_history[c], clock))
    /\ UNCHANGED << app, peer_vars, util_vars, conversation_history, all_responses, game_vars, story_vars, clock >>

\* Character.respond(text, context, use_history) called on character c
RespondStep(c, text, context, use_history, genOk) ==
    /\ app = "character_chat"
    /\ LET out == respond(char_generator[c], char_prompt[c], conversation_history[c],
                          clock, speaker_id(c), text, context, use_history, genOk)
       IN  /\ conversation_history' = [conversation_history EXCEPT ![c] = out.history]
           /\ clock' = out.clock
           /\ last' = Last("respond", c, conversation_history[c], context, <<>>, out)
                        @@ [use_history |-> use_history]
    /\ UNCHANGED << app, peer_vars, util_vars, char_generator, char_prompt, all_responses, game_vars, story_vars >>

\* a respond call of a conversation that uses both characters
Respond(c, text, context, use_history, genOk) ==
    /\ clock < MaxResponses
    /\ RespondStep(c, text, context, use_history, genOk)

\* one iteration of demo_single_character's loop: techbot.respond(text)
SoloRespond(text, genOk) ==
    /\ clock < MaxSolo
    /\ RespondStep(0, text, <<>>, TRUE, genOk)

\* one iteration of demo_multi_character's loop (run.py lines 109-115):
\* character c says text with the last 3 responses of the conversation as context
ConversationStep(c, text, genOk) ==
    /\ app = "character_chat"
    /\ LET context == LastN(all_responses, 3)
           out == respond(char_generator[c], char_prompt[c], conversation_history[c],
                          clock, speaker_id(c), text, context, TRUE, genOk)
       IN  /\ conversation_history' = [conversation_history EXCEPT ![c] = out.history]
           /\ clock' = out.clock
           /\ all_responses' = all_responses \o out.returned
           /\ last' = Last("conversation_turn", c, conversation_history[c], context, <<>>, out)
    /\ UNCHANGED << app, peer_vars, util_vars, char_generator, char_prompt, game_vars, story_vars >>

\* a turn of a multi-character conversation, any character speaking next
ConversationTurn(c, text, genOk) ==
    /\ clock < MaxResponses
    /\ ConversationStep(c, text, genOk)

\* the number of lines of demo_multi_character's dialogue
DemoLines == 6

\* the next line of demo_multi_character's dialogue: the speakers alternate,
\* starting with character 0
DemoTurn(genOk) ==
    /\ Len(all_responses) < DemoLines
    /\ LET turn == CHOOSE t \in dialogue : t[1] = Len(all_responses) % 2
       IN  ConversationStep(turn[1], turn[2], genOk)

\* a clear_history that also forgets the voice prompt
ClearHistory_dropsPrompt(c) ==
    /\ app = "character_chat"
    /\ conversation_history' = [conversation_history EXCEPT ![c] = <<>>]
    /\ char_prompt' = [char_prompt EXCEPT ![c] = NoneSegment]
    /\ last' = Last("clear_history", c, conversation_history[c], <<>>, <<>>,
                    Outcome(Ok, <<>>, <<>>, <<>>, <<>>, clock))
    /\ UNCHANGED << app, peer_vars, util_vars, char_generator, all_responses, game_vars, story_vars, clock >>

\* Character.clear_history
ClearHistory(c) ==
    /\ app = "character_chat"
    /\ conversation_history' = [conversation_history EXCEPT ![c] = <<>>]
    /\ last' = Last("clear_history", c, conversation_history[c], <<>>, <<>>,
                    Outcome(Ok, <<>>, <<>>, <<>>, <<>>, clock))
    /\ UNCHANGED << app, peer_vars, util_vars, char_generator, char_prompt, all_responses, game_vars, story_vars, clock >>

\* VoiceGame.initialize: load_csm_1b, then _create_characters; either may raise
GameInitialize(modelOk, audioOk) ==
    /\ app = "voice_game"
    /\ game_generator' = IF modelOk THEN Bound ELSE game_generator
    /\ characters' = IF modelOk /\ audioOk THEN create_characters ELSE characters
    /\ last' = Last("initialize", -1, dialogue_history, <<>>, <<>>,
                    Outcome(IF ~modelOk THEN ModelLoadFailure
                            ELSE IF ~audioOk THEN AudioLoadFailure ELSE Ok,
                            <<>>, <<>>, <<>>, dialogue_history, clock))
    /\ UNCHANGED << app, peer_vars, util_vars, chat_vars, story_vars, dialogue_history, clock >>

\* VoiceGame.character_speak(character_id, text, context)
CharacterSpeak(character_id, text, context, genOk) ==
    /\ app = "voice_game"
    /\ clock < MaxGen
    /\ LET out == character_speak(game_generator, characters, dialogue_history, clock,
                                  character_id, text, context, genOk)
       IN  /\ dialogue_history' = out.history
           /\ clock' = out.clock
           /\ last' = Last("character_speak", character_id, dialogue_history, context,
                           <<>>, out)
    /\ UNCHANGED << app, peer_vars, util_vars, chat_vars, story_vars, game_generator, characters >>

\* VoiceGame.generate_dialogue_sequence(dialogue_script)
GenerateDialogueSequence(dialogue_script, failAt) ==
    /\ app = "voice_game"
    /\ clock + Len(dialogue_script) <= MaxGen
    /\ LET out == generate_dialogue_sequence(game_generator, characters, dialogue_history,
                                             clock, dialogue_script, failAt)
       IN  /\ dialogue_history' = out.history
           /\ clock' = out.clock
           /\ last' = Last("generate_dialogue_sequence", -1, dialogue_history, <<>>,
                           dialogue_script, out)
    /\ UNCHANGED << app, peer_vars, util_vars, chat_vars, story_vars, game_generator, characters >>

\* a clear_dialogue_history that also drops the model
ClearDialogueHistory_closes ==
    /\ app = "voice_game"
    /\ dialogue_history' = <<>>
    /\ game_generator' = NoGenerator
    /\ last' = Last("clear_dialogue_history", -1, dialogue_history, <<>>, <<>>,
                    Outcome(Ok, <<>>, <<>>, <<>>, <<>>, clock))
    /\ UNCHANGED << app, peer_vars, util_vars, chat_vars, story_vars, characters, clock >>

\* VoiceGame.clear_dialogue_history
ClearDialogueHistory ==
    /\ app = "voice_game"
    /\ dialogue_history' = <<>>
    /\ last' = Last("clear_dialogue_history", -1, dialogue_history, <<>>, <<>>,
                    Outcome(Ok, <<>>, <<>>, <<>>, <<>>, clock))
    /\ UNCHANGED << app, peer_vars, util_vars, chat_vars, story_vars, game_generator, characters, clock >>

\* StoryGenerator.initialize: load_csm_1b, then _create_narrator_prompt
StoryInitialize(modelOk, audioOk) ==
    /\ app = "story_generator"
    /\ story_generator' = IF modelOk THEN Bound ELSE story_generator
    /\ narrator_prompt' = IF modelOk /\ audioOk THEN create_narrator_prompt
                          ELSE narrator_prompt
    /\ last' = Last("initialize", -1, <<>>, <<>>, <<>>,
                    Outcome(IF ~modelOk THEN ModelLoadFailure
                            ELSE IF ~audioOk THEN AudioLoadFailure ELSE Ok,
                            <<>>, <<>>, <<>>, <<>>, clock))
    /\ UNCHANGED << app, peer_vars, util_vars, chat_vars, game_vars, clock >>

\* StoryGenerator.generate_story_audio(story_text, chunk_method)
GenerateStoryAudio(story_text, chunk_method, failAt) ==
    /\ app = "story_generator"
    /\ clock + Len(split_story(story_text, chunk_method)) <= MaxGen
    /\ failAt <= Len(split_story(story_text, chunk_method))
    /\ LET out == generate_story_audio(story_generator, narrator_prompt, clock,
                                       story_text, chunk_method, failAt)
       IN  /\ clock' = out.clock
           /\ last' = Last("generate_story_audio", -1, <<>>, <<>>,
                           split_story(story_text, chunk_method), out)
    /\ UNCHANGED << app, peer_vars, util_vars, chat_vars, game_vars, story_vars >>

\* a respond of a run with several sessions: no extra context, history used
SessionRespond(c, text, genOk) ==
    /\ clock < MaxSessionGen
    /\ RespondStep(c, text, <<>>, TRUE, genOk)

\* Character.get_conversation_history called on character c by a caller that
\* keeps the list
GetConversationHistory(c) ==
    /\ app = "character_chat"
    /\ held_history' = [who |-> c] @@ get_conversation_history(conversation_history[c])
    /\ last' = Last("get_conversation_history", c, conversation_history[c], <<>>, <<>>,
                    Outcome(Ok, <<>>, <<>>, <<>>, conversation_history[c], clock))
    /\ UNCHANGED << app, util_vars, second_game, chat_vars, game_vars, story_vars, clock >>

\* the caller appends a segment of its own to the list it holds; a list that
\* is the character's own list object changes for the character too
CallerAppend ==
    /\ app = "character_chat"
    /\ held_history.who \in Chars
    /\ Len(held_history.list) < MaxHeld
    /\ held_history' = [held_history EXCEPT !.list = Append(@, UserSegment(1))]
    /\ conversation_history' =
          IF held_history.shared
          THEN [conversation_history EXCEPT ![held_history.who] = Append(@, UserSegment(1))]
          ELSE conversation_history
    /\ last' = Last("caller_append", held_history.who,
                    conversation_history[held_history.who], <<>>, <<>>,
                    Outcome(Ok, <<>>, <<>>, <<>>, <<>>, clock))
    /\ UNCHANGED << app, util_vars, second_game, char_generator, char_prompt,
                    all_responses, game_vars, story_vars, clock >>

\* a character_speak of a run with several sessions, on the first VoiceGame
SessionSpeak(character_id, text, genOk) ==
    /\ clock < MaxSessionGen
    /\ CharacterSpeak(character_id, text, <<>>, genOk)

\* VoiceGame.initialize on the second VoiceGame
SecondGameInitialize(modelOk, audioOk) ==
    /\ app = "voice_game"
    /\ second_game' =
          [second_game EXCEPT
              !.generator = IF modelOk THEN Bound ELSE @,
              !.characters = IF modelOk /\ audioOk THEN create_characters ELSE @]
    /\ last' = Last("second.initialize", -1, second_game.dialogue_history, <<>>, <<>>,
                    Outcome(IF ~modelOk THEN ModelLoadFailure
                            ELSE IF ~audioOk THEN AudioLoadFailure ELSE Ok,
                            <<>>, <<>>, <<>>, second_game.dialogue_history, clock))
    /\ UNCHANGED << app, util_vars, held_history, chat_vars, game_vars, story_vars, clock >>

\* VoiceGame.character_speak(character_id, text) on the second VoiceGame
SecondGameSpeak(character_id, text, genOk) ==
    /\ app = "voice_game"
    /\ clock < MaxSessionGen
    /\ LET out == character_speak(second_game.generator, second_game.characters,
                                  second_game.dialogue_history, clock,
                                  character_id, text, <<>>, genOk)
       IN  /\ second_game' = [second_game EXCEPT !.dialogue_history = out.history]
           /\ clock' = out.clock
           /\ last' = Last("second.character_speak", character_id,
                           second_game.dialogue_history, <<>>, <<>>, out)
    /\ UNCHANGED << app, util_vars, held_history, chat_vars, game_vars, story_vars >>

\* VoiceGame.clear_dialogue_history on the second VoiceGame
SecondGameClear ==
    /\ app = "voice_game"
    /\ second_game' = [second_game EXCEPT !.dialogue_history = <<>>]
    /\ last' = Last("second.clear_dialogue_history", -1, second_game.dialogue_history,
                    <<>>, <<>>, Outcome(Ok, <<>>, <<>>, <<>>, <<>>, clock))
    /\ UNCHANGED << app, util_vars, held_history, chat_vars, game_vars, story_vars, clock >>

\* the pending call StoryGenerator._split_story(story_text, method) returns
SplitStory ==
    /\ app = "story_generator"
    /\ split_call.pending
    /\ split_call' = [split_call EXCEPT
                         !.pending = FALSE,
                         !.chunks = split_story(split_call.story_text, split_call.method)]
    /\ UNCHANGED << app, peer_vars, chat_vars, game_vars, story_vars, audio_call, clock, last >>

\* the pending call concatenate_audio_segments(segments) returns or raises
ConcatenateAudioSegments ==
    /\ audio_call.pending
    /\ audio_call.op = "concatenate_audio_segments"
    /\ LET full == concatenate_audio_segments(audio_call.segments)
       IN  audio_call' = [audio_call EXCEPT !.pending = FALSE, !.result = full.result,
                                            !.audio = full.audio]
    /\ UNCHANGED << app, peer_vars, chat_vars, game_vars, story_vars, split_call, clock, last >>

\* the pending call concatenate_with_pauses(segments, pause_duration_ms) returns
ConcatenateWithPauses ==
    /\ audio_call.pending
    /\ audio_call.op = "concatenate_with_pauses"
    /\ audio_call' = [audio_call EXCEPT
                         !.pending = FALSE, !.result = Ok,
                         !.audio = concatenate_with_pauses(audio_call.segments,
                                                           audio_call.pause_duration_ms)]
    /\ UNCHANGED << app, peer_vars, chat_vars, game_vars, story_vars, split_call, clock, last >>

Next ==
    \/ \E c \in Chars, modelOk \in BOOLEAN, audioOk \in BOOLEAN :
          CharInitialize(c, modelOk, audioOk)
    \/ \E turn \in dialogue, context \in Extras, use_history \in BOOLEAN, genOk \in BOOLEAN :
          Respond(turn[1], turn[2], context, use_history, genOk)
    \/ \E turn \in dialogue, genOk \in BOOLEAN : ConversationTurn(turn[1], turn[2], genOk)
    \/ \E c \in Chars : ClearHistory(c)
    \/ \E modelOk \in BOOLEAN, audioOk \in BOOLEAN : GameInitialize(modelOk, audioOk)
    \/ \E line \in Lines, context \in Extras, genOk \in BOOLEAN :
          CharacterSpeak(line.character_id, line.text, context, genOk)
    \/ \E dialogue_script \in Scripts, failAt \in 0..MaxScript :
          /\ failAt <= Len(dialogue_script)
          /\ GenerateDialogueSequence(dialogue_script, failAt)
    \/ ClearDialogueHistory
    \/ \E modelOk \in BOOLEAN, audioOk \in BOOLEAN : StoryInitialize(modelOk, audioOk)
    \/ \E story_text \in Stories, chunk_method \in Methods, failAt \in 0..MaxGen :
          GenerateStoryAudio(story_text, chunk_method, failAt)

Spec == Init /\ [][Next]_vars

\* demo_single_character: one character, respond(text) for each text of a
\* conversation of any length
NextSolo ==
    \/ \E modelOk \in BOOLEAN, audioOk \in BOOLEAN : CharInitialize(0, modelOk, audioOk)
    \/ \E turn \in dialogue, genOk \in BOOLEAN : SoloRespond(turn[2], genOk)

InitSolo == InitOf({ "character_chat" })

\* demo_multi_character: both characters are initialized, then the dialogue
\* is spoken line by line
NextDemo ==
    \/ \E c \in Chars, modelOk \in BOOLEAN, audioOk \in BOOLEAN :
          CharInitialize(c, modelOk, audioOk)
    \/ \E genOk \in BOOLEAN : DemoTurn(genOk)

SpecDemo == InitSolo /\ [][NextDemo]_vars

SpecSolo == InitSolo /\ [][NextSolo]_vars

\* _split_story called once with any text and method name: every short text
\* with every name, the texts of long words with the "length" method, the
\* texts with lines of spaces with the "paragraph" method
SplitCalls ==
    { [story_text |-> t, method |-> m, pending |-> TRUE, chunks |-> <<>>] :
        t \in ShortTexts \cup { SentenceSample, ParagraphSample }, m \in PolicyNames }
    \cup
    { [story_text |-> t, method |-> "length", pending |-> TRUE, chunks |-> <<>>] :
        t \in WordTexts }
    \cup
    { [story_text |-> t, method |-> "paragraph", pending |-> TRUE, chunks |-> <<>>] :
        t \in ParagraphTexts }

InitSplit == InitWith({ "story_generator" }, SplitCalls, { NoAudioCall })

NextSplit == SplitStory

SpecSplit == InitSplit /\ [][NextSplit]_vars

\* an audio utility called once with any list of segments generated at a rate
AudioCalls ==
    { [op |-> "concatenate_audio_segments", segments |-> segments, rate |-> rate,
       pause_duration_ms |-> 0, pending |-> TRUE, result |-> "none", audio |-> <<>>] :
        segments \in SegmentLists, rate \in GeneratorRates }
    \cup
    { [op |-> "concatenate_with_pauses", segments |-> segments, rate |-> rate,
       pause_duration_ms |-> ms, pending |-> TRUE, result |-> "none", audio |-> <<>>] :
        segments \in SegmentLists, rate \in GeneratorRates, ms \in 0..MaxPause }

InitAudio == InitWith({ "voice_game" }, { NoSplit }, AudioCalls)

NextAudio == ConcatenateAudioSegments \/ ConcatenateWithPauses

SpecAudio == InitAudio /\ [][NextAudio]_vars

\* several sessions side by side: two Characters and a caller that keeps a
\* history list, or two VoiceGame objects
NextSessions ==
    \/ \E c \in Chars, modelOk \in BOOLEAN, audioOk \in BOOLEAN :
          CharInitialize(c, modelOk, audioOk)
    \/ \E turn \in dialogue, genOk \in BOOLEAN : SessionRespond(turn[1], turn[2], genOk)
    \/ \E c \in Chars : ClearHistory(c)
    \/ \E c \in Chars : GetConversationHistory(c)
    \/ CallerAppend
    \/ \E modelOk \in BOOLEAN, audioOk \in BOOLEAN : GameInitialize(modelOk, audioOk)
    \/ \E line \in Lines, genOk \in BOOLEAN :
          SessionSpeak(line.character_id, line.text, genOk)
    \/ ClearDialogueHistory
    \/ \E modelOk \in BOOLEAN, audioOk \in BOOLEAN : SecondGameInitialize(modelOk, audioOk)
    \/ \E line \in Lines, genOk \in BOOLEAN :
          SecondGameSpeak(line.character_id, line.text, genOk)
    \/ SecondGameClear

InitSessions == InitOf({ "character_chat", "voice_game" })

SpecSessions == InitSessions /\ [][NextSessions]_vars

\* ================================================================ properties
IsPrefix(p, s) == Len(p) <= Len(s) /\ SubSeq(s, 1, Len(p)) = p

\* the operations that request generation
GenerationOps == { "respond", "conversation_turn", "character_speak",
                   "generate_dialogue_sequence", "generate_story_audio" }

\* the generator field and the history of the session the last operation ran on
GeneratorNow ==
    IF app = "character_chat"
    THEN (IF last.who \in Chars THEN char_generator[last.who] ELSE NoGenerator)
    ELSE IF app = "voice_game" THEN game_generator ELSE story_generator
HistoryNow ==
    IF app = "character_chat"
    THEN (IF last.who \in Chars THEN conversation_history[last.who] ELSE <<>>)
    ELSE IF app = "voice_game" THEN dialogue_history ELSE <<>>

\* initialize() has completed on the session the last operation ran on
ReadyNow ==
    /\ GeneratorNow = Bound
    /\ IF app = "character_chat" THEN last.who \in Chars /\ char_prompt[last.who] # NoneSegment
       ELSE IF app = "voice_game" THEN DOMAIN characters = GameIds
       ELSE narrator_prompt # NoneSegment

\* the reference (voice-prompt) segment of a speaker, as the prompt files define it
ReferenceOf(speaker) ==
    IF app = "character_chat" THEN Segment(prompt_text(last.who), speaker, <<0 - (last.who + 1)>>)
    ELSE IF app = "voice_game" THEN Segment(character_text(speaker), speaker, <<0 - (11 + speaker)>>)
    ELSE Segment(narrator_prompt_text, 0, <<0 - 21>>)

\* C1: in a session whose initialize() completed, every context handed to
\* generate() by respond, character_speak (alone or in a dialogue sequence) and
\* generate_story_audio has the reference segment of the speaker being
\* generated at index 0, whatever the length of the history
C1_ReferenceFirst ==
    ReadyNow =>
        \A k \in 1..Len(last.calls) :
            /\ last.calls[k].context # <<>>
            /\ last.calls[k].context[1] = ReferenceOf(last.calls[k].speaker)

\* C1 witness: a respond on an initialized character with two earlier responses
C1_Witness ==
    /\ app = "character_chat" /\ last.op = "respond" /\ ReadyNow
    /\ Len(last.pre) >= 2 /\ Len(last.calls) = 1
    /\ Len(last.calls[1].context) >= 3

\* C3: a generation request on a session whose generator was never bound fails
\* with the not-initialized RuntimeError, issues no generate() call and leaves
\* the history as it was
C3_NotInitialized ==
    (last.op \in GenerationOps /\ GeneratorNow = NoGenerator) =>
        /\ last.result = NotInitialized
        /\ last.calls = <<>>
        /\ last.returned = <<>>
        /\ HistoryNow = last.pre

\* C3 witness: a dialogue sequence requested before initialize()
C3_Witness ==
    /\ last.op = "generate_dialogue_sequence" /\ game_generator = NoGenerator
    /\ Len(last.script) = 2 /\ last.result = NotInitialized

\* C4: in a VoiceGame whose generator is bound, character_speak with an id that
\* is not registered fails with the ValueError, issues no generate() call and
\* leaves dialogue_history exactly as it was
C4_UnknownSpeaker ==
    (app = "voice_game" /\ last.op = "character_speak" /\ game_generator = Bound
        /\ last.who \notin DOMAIN characters) =>
        /\ last.result = UnknownSpeaker
        /\ last.calls = <<>>
        /\ dialogue_history = last.pre

\* C4 witness: the unregistered id spoken for while the history holds two segments
C4_Witness ==
    /\ app = "voice_game" /\ last.op = "character_speak" /\ last.who = Unregistered
    /\ DOMAIN characters = GameIds /\ Len(last.pre) = 2 /\ last.result = UnknownSpeaker

\* the generate() calls of the last operation that returned audio, in order
RECURSIVE OkCalls(_)
OkCalls(calls) ==
    IF calls = <<>> THEN <<>>
    ELSE (IF Head(calls).ok THEN <<Head(calls)>> ELSE <<>>) \o OkCalls(Tail(calls))

\* the extra segments the caller supplied to the k-th call of the last operation
ExtraOfCall(k) ==
    IF last.op \in { "respond", "conversation_turn", "character_speak" } THEN last.extra
    ELSE <<>>

\* the largest history window the applications document (game.py line 73)
HistoryLimit == 3

\* C2 as claimed: in a session whose initialize() completed, every context
\* handed to generate() has at most 1 + HistoryLimit + |extra segments|
\* entries, however many units the session has generated
C2_ContextBounded_AsClaimed ==
    ReadyNow =>
        \A k \in 1..Len(last.calls) :
            Len(last.calls[k].context) <= 1 + HistoryLimit + Len(ExtraOfCall(k))

\* C5: when a generate() call raises, the operation ends with that failure, the
\* failing call is the last call the operation issued (no retry, no later
\* unit), nothing is returned, and the session history holds what it held
\* before plus one segment per call that returned earlier in the operation:
\* nothing is appended for the failed unit
C5_FailureLeavesHistory ==
    (\E k \in 1..Len(last.calls) : ~last.calls[k].ok) =>
        /\ last.result = GenerationFailure
        /\ \A k \in 1..Len(last.calls) : last.calls[k].ok <=> k < Len(last.calls)
        /\ last.returned = <<>>
        /\ last.op \in { "respond", "conversation_turn", "character_speak" } =>
              /\ Len(last.calls) = 1
              /\ HistoryNow = last.pre
        /\ last.op = "conversation_turn" => LastN(all_responses, 3) = last.extra
        /\ last.op = "generate_dialogue_sequence" =>
              /\ IsPrefix(last.pre, dialogue_history)
              /\ Len(dialogue_history) = Len(last.pre) + Len(last.calls) - 1
              /\ \A j \in 1..(Len(last.calls) - 1) :
                    /\ dialogue_history[Len(last.pre) + j].text = last.calls[j].text
                    /\ dialogue_history[Len(last.pre) + j].speaker = last.calls[j].speaker

\* C5 witness: a respond whose generate() call raised while the character's
\* history held a response
C5_Witness ==
    /\ last.op = "respond" /\ last.result = GenerationFailure
    /\ Len(last.pre) >= 1 /\ Len(last.calls) = 1 /\ ~last.calls[1].ok

\* the last min(3, |H|) entries of H, oldest first
LastMin3(H) ==
    LET n == IF Len(H) < 3 THEN Len(H) ELSE 3
    IN  [i \in 1..n |-> H[Len(H) - n + i]]

\* C6: every character_speak call of a VoiceGame, made directly with history H
\* and extra segments, or as line k of a dialogue sequence (H is then the
\* history before the sequence plus the segments of lines 1..k-1, extra is
\* empty), hands generate() exactly [reference(id)], the last min(3, |H|)
\* entries of H oldest first, then the extra segments in the order given
C6_SpeakContextExact ==
    app = "voice_game" =>
        /\ (last.op = "character_speak" /\ last.calls # <<>>) =>
              last.calls[1].context =
                  <<ReferenceOf(last.who)>> \o LastMin3(last.pre) \o last.extra
        /\ last.op = "generate_dialogue_sequence" =>
              \A k \in 1..Len(last.calls) :
                  last.calls[k].context =
                      <<ReferenceOf(last.calls[k].speaker)>>
                      \o LastMin3(SubSeq(dialogue_history, 1, Len(last.pre) + k - 1))

\* C6 witness: character_speak with four segments in the history and two extra
\* segments
C6_Witness ==
    /\ app = "voice_game" /\ last.op = "character_speak" /\ last.result = Ok
    /\ Len(last.pre) = 4 /\ Len(last.extra) = 2 /\ Len(last.calls[1].context) = 6

\* the operations that reset a session history
ResetOps == { "clear_history", "clear_dialogue_history" }

\* C7: across every step that is not a reset, each session history keeps all
\* its entries unchanged and in place, and gains at its end exactly one segment
\* per generate() call that returned in the step (none or one for respond,
\* conversation turns and character_speak), carrying that call's text and
\* speaker
C7_AppendOnly ==
    [][ last'.op \notin ResetOps =>
          /\ \A c \in Chars :
                /\ IsPrefix(conversation_history[c], conversation_history'[c])
                /\ Len(conversation_history'[c]) - Len(conversation_history[c]) =
                      (IF app = "character_chat" /\ last'.who = c
                       THEN Len(OkCalls(last'.calls)) ELSE 0)
                /\ Len(conversation_history'[c]) - Len(conversation_history[c]) <= 1
          /\ IsPrefix(dialogue_history, dialogue_history')
          /\ Len(dialogue_history') - Len(dialogue_history) =
                (IF app = "voice_game" THEN Len(OkCalls(last'.calls)) ELSE 0)
          /\ last'.op = "character_speak" =>
                Len(dialogue_history') - Len(dialogue_history) <= 1
          /\ \A j \in 1..(Len(dialogue_history') - Len(dialogue_history)) :
                /\ dialogue_history'[Len(dialogue_history) + j].text =
                      OkCalls(last'.calls)[j].text
                /\ dialogue_history'[Len(dialogue_history) + j].speaker =
                      OkCalls(last'.calls)[j].speaker
      ]_vars

\* C7 witness: a dialogue sequence of two lines run on a history of two segments
C7_Witness ==
    /\ last.op = "generate_dialogue_sequence" /\ last.result = Ok
    /\ Len(last.pre) = 2 /\ Len(dialogue_history) = 4

\* C8: a reset empties the history of the session it is called on and changes
\* no generator, no reference segment and no other history; a generation call
\* made right after it hands generate() the session's reference segment
\* followed by the extra segments supplied, and nothing else
C8_ResetFrame ==
    [][ /\ last'.op = "clear_history" =>
              /\ conversation_history' =
                    [conversation_history EXCEPT ![last'.who] = <<>>]
              /\ UNCHANGED << char_generator, char_prompt, all_responses,
                              game_vars, story_vars, clock >>
        /\ last'.op = "clear_dialogue_history" =>
              /\ dialogue_history' = <<>>
              /\ UNCHANGED << game_generator, characters, chat_vars, story_vars, clock >>
        /\ (last.op = "clear_history" /\ last'.op \in { "respond", "conversation_turn" }
              /\ last'.who = last.who /\ last'.calls # <<>>) =>
              last'.calls[1].context = <<char_prompt[last.who]>> \o last'.extra
        /\ (last.op = "clear_dialogue_history" /\ last'.op = "character_speak"
              /\ last'.calls # <<>>) =>
              last'.calls[1].context = <<characters[last'.who].prompt>> \o last'.extra
      ]_vars

\* C8 witness: an initialized character whose history of two responses was
\* just cleared
C8_Witness ==
    /\ last.op = "clear_history" /\ Len(last.pre) = 2
    /\ conversation_history[last.who] = <<>>
    /\ char_generator[last.who] = Bound /\ char_prompt[last.who] # NoneSegment

\* C9 as claimed: a dialogue sequence on an initialized game whose lines all
\* name registered characters and whose generate() calls all return, returns
\* one segment per line with that line's speaker and text, and the returned
\* list is the tail of dialogue_history
C9_SequenceReturnsLines_AsClaimed ==
    (/\ last.op = "generate_dialogue_sequence"
     /\ ReadyNow
     /\ \A i \in 1..Len(last.script) : last.script[i].character_id \in DOMAIN characters
     /\ \A k \in 1..Len(last.calls) : last.calls[k].ok) =>
        /\ last.result = Ok
        /\ Len(last.returned) = Len(last.script)
        /\ \A i \in 1..Len(last.script) :
              /\ last.returned[i].speaker = last.script[i].character_id
              /\ last.returned[i].text = last.script[i].text
        /\ last.returned = LastN(dialogue_history, Len(last.returned))

\* the serial number of the generate() call that produced a segment; 0 for a
\* reference prompt or a segment of the caller
Serial(segment) == IF segment.audio # <<>> /\ segment.audio[1] > 0 THEN segment.audio[1] ELSE 0

\* C10 as claimed: in every context handed to generate() by a session whose
\* initialize() completed, the generated segments after the reference come in
\* the order they were generated: none is followed by one generated before it
C10_ContextChronological_AsClaimed ==
    ReadyNow =>
        \A k \in 1..Len(last.calls) :
            LET ctx == last.calls[k].context
            IN  \A i, j \in 2..Len(ctx) :
                    (i < j /\ Serial(ctx[i]) > 0 /\ Serial(ctx[j]) > 0) =>
                        Serial(ctx[i]) <= Serial(ctx[j])

\* ------------------------------------------------- _split_story, C11 - C17
\* the last _split_story call has returned
SplitDone == split_call.method # "none" /\ ~split_call.pending

\* u occurs in t as a run of adjacent characters
IsSubstring(u, t) ==
    \E i \in 0..(Len(t) - Len(u)) : SubSeq(t, i + 1, i + Len(u)) = u

\* the whitespace-normalized form of a text: leading and trailing whitespace
\* removed, every other run of whitespace replaced by one space
Normalize(s) ==
    LET IsSpace(k) == s[k] \in Whitespace
        keep(k) == \/ ~IsSpace(k)
                   \/ /\ k > 1
                      /\ ~IsSpace(k - 1)
                      /\ \E m \in (k + 1)..Len(s) : ~IsSpace(m)
        idx == SelectSeq([k \in 1..Len(s) |-> k], keep)
    IN  [k \in 1..Len(idx) |-> IF IsSpace(idx[k]) THEN " " ELSE s[idx[k]]]

\* the characters i..j of s without the whitespace at either end; s[i..j]
\* holds a character that is not whitespace
Trimmed(s, i, j) ==
    LET a == CHOOSE k \in i..j : s[k] \notin Whitespace /\ \A m \in i..(k - 1) : s[m] \in Whitespace
        b == CHOOSE k \in i..j : s[k] \notin Whitespace /\ \A m \in (k + 1)..j : s[m] \in Whitespace
    IN  SubSeq(s, a, b)

\* the k-th smallest member of a set of positions
Kth(S, k) == CHOOSE i \in S : Cardinality({ j \in S : j <= i }) = k

\* C11: for every non-empty text and every method name, _split_story returns
\* no empty unit
C11_NonEmptyUnits ==
    (SplitDone /\ split_call.story_text # <<>>) =>
        \A i \in 1..Len(split_call.chunks) : split_call.chunks[i] # <<>>

\* C11 witness: the paragraph method on a text that starts with a blank line,
\* whose first block is empty and is dropped
C11_Witness ==
    /\ SplitDone /\ split_call.method = "paragraph"
    /\ Len(split_call.story_text) = 4
    /\ SubSeq(split_call.story_text, 1, 2) = << "\n", "\n" >>
    /\ Len(split_call.chunks) = 1

\* C12 as claimed: for every non-empty text and every method, the trimmed
\* content of each returned unit, whitespace-normalized, is a contiguous
\* substring of the whitespace-normalized text
C12_UnitsAreSubstrings_AsClaimed ==
    (SplitDone /\ split_call.story_text # <<>>) =>
        \A i \in 1..Len(split_call.chunks) :
            IsSubstring(Normalize(split_call.chunks[i]), Normalize(split_call.story_text))

\* C12 as amended: the same for every method but "sentence"; a unit of the
\* sentence method is such a substring followed by the one period the method
\* appends
C12_UnitsAreSubstrings ==
    (SplitDone /\ split_call.story_text # <<>>) =>
        \A i \in 1..Len(split_call.chunks) :
            LET unit == split_call.chunks[i]
            IN  IF split_call.method = "sentence"
                THEN /\ unit # <<>>
                     /\ unit[Len(unit)] = "."
                     /\ IsSubstring(Normalize(SubSeq(unit, 1, Len(unit) - 1)),
                                    Normalize(split_call.story_text))
                ELSE IsSubstring(Normalize(unit), Normalize(split_call.story_text))

\* C12 witness: the paragraph method on "Para one.\n\nPara two.", two units
\* with a space inside each
C12_Witness ==
    /\ SplitDone /\ split_call.method = "paragraph"
    /\ split_call.story_text = ParagraphSample
    /\ Len(split_call.chunks) = 2

\* the positions where a fragment of the sentence method starts: a character
\* that is no terminal mark, at the start of the text or right after one
FragmentStarts(s) ==
    { i \in 1..Len(s) : s[i] \notin Terminal /\ (i = 1 \/ s[i - 1] \in Terminal) }

\* the last position of the fragment that starts at i
FragmentEnd(s, i) ==
    CHOOSE j \in i..Len(s) :
        /\ \A m \in i..j : s[m] \notin Terminal
        /\ j = Len(s) \/ s[j + 1] \in Terminal

\* the starts of the fragments that are not empty after trimming
SentenceStarts(s) ==
    { i \in FragmentStarts(s) : \E m \in i..FragmentEnd(s, i) : s[m] \notin Whitespace }

\* "One.", "Two.", "Three."
SentenceSampleUnits ==
    << << "O", "n", "e", "." >>, << "T", "w", "o", "." >>,
       << "T", "h", "r", "e", "e", "." >> >>

\* C13: under the sentence method the units are, in input order, the
\* fragments between maximal runs of terminal marks that are not empty after
\* trimming, each trimmed and followed by one period, with no other terminal
\* mark inside; "One. Two! Three?" gives "One.", "Two.", "Three."
C13_SentenceUnits ==
    (SplitDone /\ split_call.method = "sentence") =>
        LET s == split_call.story_text
            units == split_call.chunks
            starts == SentenceStarts(s)
        IN  /\ Len(units) = Cardinality(starts)
            /\ \A k \in 1..Len(units) :
                  /\ units[k] = Trimmed(s, Kth(starts, k), FragmentEnd(s, Kth(starts, k)))
                                    \o << "." >>
                  /\ Len(units[k]) >= 2
                  /\ units[k][1] \notin Whitespace
                  /\ units[k][Len(units[k]) - 1] \notin Whitespace
                  /\ \A m \in 1..(Len(units[k]) - 1) : units[k][m] \notin Terminal
            /\ s = SentenceSample => units = SentenceSampleUnits

\* C13 witness: the sentence method on "One. Two! Three?"
C13_Witness ==
    /\ SplitDone /\ split_call.method = "sentence"
    /\ split_call.story_text = SentenceSample
    /\ Len(split_call.chunks) = 3

\* a blank-line boundary of the paragraph method starts at i: two newlines,
\* the first of them an even number of newlines into its run of newlines
IsBoundary(s, i) ==
    /\ i + 1 <= Len(s) /\ s[i] = "\n" /\ s[i + 1] = "\n"
    /\ LET r == CHOOSE k \in 1..i : /\ \A m \in k..i : s[m] = "\n"
                                    /\ k = 1 \/ s[k - 1] # "\n"
       IN  (i - r) % 2 = 0

\* the positions where a block of the paragraph method starts, and the last
\* position of the block that starts at i (i - 1 for an empty block)
BlockStarts(s) ==
    { 1 } \cup { i \in 3..(Len(s) + 1) : IsBoundary(s, i - 2) }
BlockEnd(s, i) ==
    CHOOSE j \in (i - 1)..Len(s) :
        /\ \A m \in i..j : ~IsBoundary(s, m)
        /\ j = Len(s) \/ IsBoundary(s, j + 1)

\* the starts of the blocks that are not empty after trimming
ParagraphStarts(s) ==
    { i \in BlockStarts(s) : \E m \in i..BlockEnd(s, i) : s[m] \notin Whitespace }

\* "Para one.", "Para two."
ParagraphSampleUnits ==
    << << "P", "a", "r", "a", " ", "o", "n", "e", "." >>,
       << "P", "a", "r", "a", " ", "t", "w", "o", "." >> >>

\* a blank line of t lies between the newlines at i and j: nothing, or only
\* spaces, between them
BlankLineBetween(t, i, j) ==
    /\ i < j /\ t[i] = "\n" /\ t[j] = "\n"
    /\ \A m \in (i + 1)..(j - 1) : t[m] = " "
ContainsBlankLine(t) ==
    \E i \in 1..Len(t), j \in 1..Len(t) : BlankLineBetween(t, i, j)

\* "a", a line of one space, "a"
SpaceLineSample == << "a", "\n", " ", "\n", "a" >>

\* C14 as claimed, a blank line being a line with nothing or only spaces on
\* it: under the paragraph method every unit is trimmed and not empty, no
\* unit contains a blank line, and two paragraphs of one line each with one
\* blank line between them give exactly two units
C14_ParagraphUnits_AsClaimed ==
    (SplitDone /\ split_call.method = "paragraph") =>
        LET s == split_call.story_text
            units == split_call.chunks
        IN  /\ \A k \in 1..Len(units) :
                  /\ units[k] # <<>>
                  /\ units[k][1] \notin Whitespace
                  /\ units[k][Len(units[k])] \notin Whitespace
                  /\ ~ContainsBlankLine(units[k])
            /\ \A i \in 1..Len(s), j \in 1..Len(s) :
                  (/\ BlankLineBetween(s, i, j)
                   /\ \A m \in (1..(i - 1)) \cup ((j + 1)..Len(s)) : s[m] # "\n"
                   /\ \E m \in 1..(i - 1) : s[m] \notin Whitespace
                   /\ \E m \in (j + 1)..Len(s) : s[m] \notin Whitespace) =>
                      Len(units) = 2

\* C14: under the paragraph method the units are, in input order, the blocks
\* between boundaries of two adjacent newlines that are not empty after
\* trimming, each trimmed; no unit contains two adjacent newlines, and a text
\* with one such boundary and text on both sides of it gives two units; a
\* line holding only spaces is no boundary and stays inside its unit
C14_ParagraphUnits ==
    (SplitDone /\ split_call.method = "paragraph") =>
        LET s == split_call.story_text
            units == split_call.chunks
            starts == ParagraphStarts(s)
        IN  /\ Len(units) = Cardinality(starts)
            /\ \A k \in 1..Len(units) :
                  /\ units[k] = Trimmed(s, Kth(starts, k), BlockEnd(s, Kth(starts, k)))
                  /\ units[k] # <<>>
                  /\ units[k][1] \notin Whitespace
                  /\ units[k][Len(units[k])] \notin Whitespace
                  /\ ~IsSubstring(<< "\n", "\n" >>, units[k])
            /\ \A i \in 2..(Len(s) - 2) :
                  (/\ SubSeq(s, i, i + 1) = << "\n", "\n" >>
                   /\ ~IsSubstring(<< "\n", "\n" >>, SubSeq(s, 1, i))
                   /\ ~IsSubstring(<< "\n", "\n" >>, SubSeq(s, i + 1, Len(s)))
                   /\ \E m \in 1..(i - 1) : s[m] \notin Whitespace
                   /\ \E m \in (i + 2)..Len(s) : s[m] \notin Whitespace) =>
                      Len(units) = 2
            /\ s = ParagraphSample => units = ParagraphSampleUnits
            /\ s = SpaceLineSample => units = << SpaceLineSample >>

\* C14 witness: the paragraph method on a four-character text with one blank
\* line between two letters
C14_Witness ==
    /\ SplitDone /\ split_call.method = "paragraph"
    /\ split_call.story_text = << "a", "\n", "\n", "a" >>
    /\ split_call.chunks = << << "a" >>, << "a" >> >>

\* the units joined with single spaces
RECURSIVE SpaceJoined(_)
SpaceJoined(units) ==
    IF units = <<>> THEN <<>>
    ELSE IF Len(units) = 1 THEN units[1]
    ELSE units[1] \o << " " >> \o SpaceJoined(Tail(units))

\* a unit made of more than one word
HasSeveralWords(unit) == \E k \in 1..Len(unit) : unit[k] \in Whitespace

\* C15 as claimed: under the length method every unit of more than one word
\* has at most max_chars characters, the first unit and the later ones alike;
\* only a unit that is one single word may be longer
C15_UnitsWithinBudget_AsClaimed ==
    (SplitDone /\ split_call.method = "length") =>
        \A i \in 1..Len(split_call.chunks) :
            HasSeveralWords(split_call.chunks[i]) => Len(split_call.chunks[i]) <= max_chars

\* C16: under the length method the units joined with single spaces are the
\* whitespace-normalized text: every word of the text is in exactly one unit,
\* whole, and the words keep their order
C16_WordsPreserved ==
    (SplitDone /\ split_call.method = "length") =>
        /\ SpaceJoined(split_call.chunks) = Normalize(split_call.story_text)
        /\ \A i \in 1..Len(split_call.chunks) :
              split_call.chunks[i] = Normalize(split_call.chunks[i])

\* C16 witness: the length method on three words of 200, 1 and 200 characters,
\* which do not fit one unit
C16_Witness ==
    /\ SplitDone /\ split_call.method = "length"
    /\ Len(split_call.story_text) = 403
    /\ split_call.story_text[201] = " " /\ split_call.story_text[203] = " "
    /\ Len(split_call.chunks) = 3

\* C17: for a method name other than "paragraph", "sentence" and "length",
\* _split_story returns one unit, the text exactly as given
C17_FallbackWholeText ==
    (SplitDone /\ split_call.method \notin { "paragraph", "sentence", "length" }) =>
        split_call.chunks = << split_call.story_text >>

\* C17 witness: the unknown name "Sentence" on a text with whitespace at both
\* ends and a terminal mark inside
C17_Witness ==
    /\ SplitDone /\ split_call.method = "Sentence"
    /\ split_call.story_text = << " ", "a", ".", "\n" >>
    /\ Len(split_call.chunks) = 1

\* ----------------------------------------------------- audio_utils, C18 - C20
\* the last audio utility call has returned or raised
AudioDone(op) == audio_call.op = op /\ ~audio_call.pending

\* the number of samples of the first k segments of a list
RECURSIVE SamplesBefore(_, _)
SamplesBefore(segments, k) ==
    IF k = 0 THEN 0 ELSE SamplesBefore(segments, k - 1) + Len(segments[k].audio)

\* C18 as claimed: concatenate_audio_segments of an empty list returns an
\* empty buffer; generate_story_audio on a text without chunks and
\* generate_dialogue_sequence on an empty script, on an initialized session,
\* return an empty buffer and an empty list of segments
C18_EmptyConcatenation_AsClaimed ==
    /\ (AudioDone("concatenate_audio_segments") /\ audio_call.segments = <<>>) =>
          /\ audio_call.result = Ok
          /\ audio_call.audio = <<>>
    /\ (/\ last.op \in { "generate_story_audio", "generate_dialogue_sequence" }
        /\ ReadyNow
        /\ last.script = <<>>) =>
          /\ last.result = Ok
          /\ last.audio = <<>>
          /\ last.returned = <<>>

\* C19: for a non-empty list, concatenate_audio_segments returns the samples
\* of the segments in list order and nothing else: segment k occupies the
\* positions after the samples of segments 1..k-1, the length is the sum of
\* the segment lengths, and a single segment gives its own audio
C19_ConcatenationInOrder ==
    (AudioDone("concatenate_audio_segments") /\ audio_call.segments # <<>>) =>
        LET segments == audio_call.segments
        IN  /\ audio_call.result = Ok
            /\ Len(audio_call.audio) = SamplesBefore(segments, Len(segments))
            /\ \A k \in 1..Len(segments) :
                  SubSeq(audio_call.audio, SamplesBefore(segments, k - 1) + 1,
                         SamplesBefore(segments, k)) = segments[k].audio
            /\ Len(segments) = 1 => audio_call.audio = segments[1].audio

\* C19 witness: three segments of one, two and two samples concatenated
C19_Witness ==
    /\ AudioDone("concatenate_audio_segments")
    /\ Len(audio_call.segments) = 3
    /\ audio_call.audio = << 1, 2, 3, 0, 4 >>

\* the number of samples of a pause: 24000 samples per second
PauseSamples(pause_duration_ms) == 24 * pause_duration_ms

\* C20: for n >= 1 segments concatenate_with_pauses returns the segments in
\* order with one buffer of zero samples of the pause's duration between each
\* two neighbours, none before the first and none after the last: the length
\* is the sum of the segment lengths plus n - 1 pauses; for an empty list it
\* returns an empty buffer
C20_PausesBetween ==
    AudioDone("concatenate_with_pauses") =>
        LET segments == audio_call.segments
            n == Len(segments)
            pause == PauseSamples(audio_call.pause_duration_ms)
            start(k) == SamplesBefore(segments, k - 1) + (k - 1) * pause
        IN  /\ audio_call.result = Ok
            /\ n = 0 => audio_call.audio = <<>>
            /\ n >= 1 =>
                  /\ Len(audio_call.audio) = SamplesBefore(segments, n) + (n - 1) * pause
                  /\ \A k \in 1..n :
                        SubSeq(audio_call.audio, start(k) + 1,
                               start(k) + Len(segments[k].audio)) = segments[k].audio
                  /\ \A k \in 1..(n - 1) :
                        \A m \in 1..pause :
                            audio_call.audio[start(k) + Len(segments[k].audio) + m] = 0

\* C20 witness: three segments joined with pauses of two milliseconds
C20_Witness ==
    /\ AudioDone("concatenate_with_pauses")
    /\ Len(audio_call.segments) = 3 /\ audio_call.pause_duration_ms = 2
    /\ Len(audio_call.audio) = SamplesBefore(audio_call.segments, 3) + 96

\* C21 as claimed: the pause concatenate_with_pauses puts between two segments
\* generated at sample rate R has floor(pause_duration_ms * R / 1000) samples,
\* whatever R is
C21_PauseAtSegmentRate_AsClaimed ==
    (AudioDone("concatenate_with_pauses") /\ Len(audio_call.segments) >= 2) =>
        Len(audio_call.audio) - SamplesBefore(audio_call.segments, Len(audio_call.segments))
            = (Len(audio_call.segments) - 1)
                  * ((audio_call.pause_duration_ms * audio_call.rate) \div 1000)

\* ------------------------------------------- sequencing and lifecycle, C22 - C30
\* the operations that generate a sequence of units
SequenceOps == { "generate_dialogue_sequence", "generate_story_audio" }

\* C22: in a sequence, call k + 1 is issued only after call k returned and its
\* segment was recorded: call k returned, the context of call k + 1 ends with
\* a segment that has the text and speaker of call k and was generated after
\* everything in the context of call k, it is the k-th segment the sequence
\* returns and (in a VoiceGame) the k-th segment appended to dialogue_history
C22_OneUnitAtATime ==
    last.op \in SequenceOps =>
        \A k \in 1..(Len(last.calls) - 1) :
            LET ctx == last.calls[k + 1].context
                prev == ctx[Len(ctx)]
            IN  /\ last.calls[k].ok
                /\ prev.text = last.calls[k].text
                /\ prev.speaker = last.calls[k].speaker
                /\ Serial(prev) > 0
                /\ \A j \in 1..Len(last.calls[k].context) :
                      Serial(last.calls[k].context[j]) < Serial(prev)
                /\ last.result = Ok => prev = last.returned[k]
                /\ last.op = "generate_dialogue_sequence" =>
                      prev = dialogue_history[Len(last.pre) + k]

\* C22 witness: a narration of four chunks, all generated
C22_Witness ==
    /\ last.op = "generate_story_audio" /\ last.result = Ok
    /\ Len(last.calls) = 4 /\ Len(last.calls[4].context) = 3

\* C23 as claimed: when a sequence on an initialized session stops after some
\* units were generated, the
\* segments of those units are still there for the caller, in generation
\* order: as what the sequence hands back, or as the segments the sequence
\* added to the session history
C23_PartialResultsKept_AsClaimed ==
    (last.op \in SequenceOps /\ ReadyNow /\ last.result # Ok
        /\ OkCalls(last.calls) # <<>>) =>
        LET produced == OkCalls(last.calls)
        IN  \E avail \in { last.returned,
                          SubSeq(HistoryNow, Len(last.pre) + 1, Len(HistoryNow)) } :
                /\ Len(avail) = Len(produced)
                /\ \A k \in 1..Len(avail) :
                      /\ avail[k].text = produced[k].text
                      /\ avail[k].speaker = produced[k].speaker
                      /\ Serial(avail[k]) > 0

\* C24: a generator field leaves None only in a step of that session's
\* initialize(), a bound generator stays bound and populated references stay
\* populated across every step, and a generation request on a session whose
\* generator was bound before the request does not fail with NotInitialized
C24_ReadyForever ==
    [][ /\ \A c \in Chars :
              /\ char_generator[c] = Bound => char_generator'[c] = Bound
              /\ char_prompt[c] # NoneSegment => char_prompt'[c] # NoneSegment
              /\ char_generator[c] # char_generator'[c] =>
                    last'.op = "initialize" /\ last'.who = c
              /\ (last'.op \in { "respond", "conversation_turn" } /\ last'.who = c
                    /\ char_generator[c] = Bound) => last'.result # NotInitialized
        /\ game_generator = Bound => game_generator' = Bound
        /\ DOMAIN characters = GameIds => DOMAIN characters' = GameIds
        /\ game_generator # game_generator' => last'.op = "initialize"
        /\ (last'.op \in { "character_speak", "generate_dialogue_sequence" }
              /\ game_generator = Bound) => last'.result # NotInitialized
        /\ story_generator = Bound => story_generator' = Bound
        /\ narrator_prompt # NoneSegment => narrator_prompt' # NoneSegment
        /\ story_generator # story_generator' => last'.op = "initialize"
        /\ (last'.op = "generate_story_audio" /\ story_generator = Bound) =>
              last'.result # NotInitialized
      ]_vars

\* C24 witness: a line spoken on an empty dialogue history after three
\* segments were generated and the history was cleared
C24_Witness ==
    /\ app = "voice_game" /\ last.op = "character_speak" /\ last.result = Ok
    /\ last.pre = <<>> /\ clock = 4

\* the first line of a script that names an unregistered character id; 0 if
\* every line names a registered one
FirstUnregistered(script) ==
    IF \A i \in 1..Len(script) : script[i].character_id \in DOMAIN characters THEN 0
    ELSE CHOOSE k \in 1..Len(script) :
             /\ script[k].character_id \notin DOMAIN characters
             /\ \A i \in 1..(k - 1) : script[i].character_id \in DOMAIN characters

\* C25 as claimed: a dialogue sequence on an initialized game whose k-th line
\* is the first to name an unregistered id, the calls of the lines before it
\* all returning, fails with the UnknownSpeaker error of character_speak,
\* issues the calls of lines 1..k-1 only, and leaves dialogue_history as it
\* was plus the segments of lines 1..k-1
C25_UnknownSpeakerInSequence_AsClaimed ==
    (/\ last.op = "generate_dialogue_sequence"
     /\ ReadyNow
     /\ FirstUnregistered(last.script) > 0
     /\ \A j \in 1..Len(last.calls) : last.calls[j].ok) =>
        LET k == FirstUnregistered(last.script)
        IN  /\ last.result = UnknownSpeaker
            /\ Len(last.calls) = k - 1
            /\ IsPrefix(last.pre, dialogue_history)
            /\ Len(dialogue_history) = Len(last.pre) + k - 1
            /\ \A i \in 1..(k - 1) :
                  /\ dialogue_history[Len(last.pre) + i].text = last.script[i].text
                  /\ dialogue_history[Len(last.pre) + i].speaker = last.script[i].character_id

\* C26 as claimed: in every state a session's generator is bound exactly when
\* its reference segments are populated, and a generation request on a session
\* with a missing reference fails with NotInitialized without a generate() call
C26_InitializeAllOrNothing_AsClaimed ==
    /\ \A c \in Chars : char_generator[c] = Bound <=> char_prompt[c] # NoneSegment
    /\ game_generator = Bound <=> DOMAIN characters = GameIds
    /\ story_generator = Bound <=> narrator_prompt # NoneSegment
    /\ (last.op \in GenerationOps /\ ~ReadyNow) =>
          /\ last.result = NotInitialized
          /\ last.calls = <<>>

\* the segments at positions k - 2 and k - 1 of a list, those that exist
TwoBefore(segments, k) == SubSeq(segments, IF k > 2 THEN k - 2 ELSE 1, k - 1)

\* C27 as claimed: a narration on an initialized StoryGenerator whose
\* generate() calls all return issues one call per chunk, in chunk order, with
\* speaker 0 and the context [narrator reference] followed by the segments of
\* chunks k - 2 and k - 1, and returns one segment per chunk, in chunk order,
\* with that chunk as text and speaker 0
C27_OneCallPerChunk_AsClaimed ==
    (/\ last.op = "generate_story_audio"
     /\ ReadyNow
     /\ \A j \in 1..Len(last.calls) : last.calls[j].ok) =>
        /\ last.result = Ok
        /\ Len(last.calls) = Len(last.script)
        /\ Len(last.returned) = Len(last.script)
        /\ \A k \in 1..Len(last.script) :
              /\ last.calls[k].text = last.script[k]
              /\ last.calls[k].speaker = 0
              /\ last.calls[k].context = << ReferenceOf(0) >> \o TwoBefore(last.returned, k)
              /\ last.returned[k].text = last.script[k]
              /\ last.returned[k].speaker = 0
              /\ Serial(last.returned[k]) > 0

\* C28: the first generate() call of every narration receives a context that
\* holds the narrator reference and nothing else, whatever the StoryGenerator
\* generated before
C28_NoHistoryBetweenNarrations ==
    (last.op = "generate_story_audio" /\ last.calls # <<>>) =>
        /\ last.calls[1].context = << narrator_prompt >>
        /\ ReadyNow => last.calls[1].context = << ReferenceOf(0) >>

\* C28 witness: a narration started after the StoryGenerator had generated
\* three segments
C28_Witness ==
    /\ last.op = "generate_story_audio" /\ ReadyNow /\ last.result = Ok
    /\ Len(last.returned) >= 1 /\ Serial(last.returned[1]) = 4

\* get_info()['conversation_length'] of character c
ConversationLength(c) == get_info(c, conversation_history[c]).conversation_length

\* C29: a respond with use_history = False hands generate() the character's
\* reference followed by the extra segments and nothing else; every respond
\* that returns, with or without history, adds one to conversation_length,
\* clear_history sets it to zero, and no other step changes it
C29_HistorylessRespond ==
    [][ \A c \in Chars :
          /\ (last'.op = "respond" /\ last'.who = c /\ last'.calls # <<>>
                /\ ~last'.use_history) =>
                last'.calls[1].context = << char_prompt[c] >> \o last'.extra
          /\ ConversationLength(c)' =
                IF last'.op \in { "respond", "conversation_turn" } /\ last'.who = c
                THEN ConversationLength(c) + (IF last'.result = Ok THEN 1 ELSE 0)
                ELSE IF last'.op = "clear_history" /\ last'.who = c THEN 0
                ELSE ConversationLength(c)
      ]_vars

\* C29 witness: a respond with use_history = False and one extra segment on an
\* initialized character that had two responses in its history
C29_Witness ==
    /\ last.op = "respond" /\ last.result = Ok /\ ~last.use_history
    /\ Len(last.pre) = 2 /\ Len(last.extra) = 1
    /\ Len(last.calls[1].context) = 2
    /\ ConversationLength(last.who) = 3

\* the operations on a Character, on the first and on the second VoiceGame
CharacterOps == { "initialize", "respond", "conversation_turn", "clear_history",
                  "get_conversation_history", "caller_append" }
FirstGameOps == { "initialize", "character_speak", "generate_dialogue_sequence",
                  "clear_dialogue_history" }
SecondGameOps == { "second.initialize", "second.character_speak",
                   "second.clear_dialogue_history" }

\* C30: a step on one Character leaves the generator, reference and history of
\* every other Character as they were; a step on one VoiceGame leaves the other
\* VoiceGame as it was; get_conversation_history hands out the history as it
\* is, and a caller appending to the list it was handed changes that list only
C30_SessionsIndependent ==
    [][ /\ app = "character_chat" =>
              /\ \A c \in Chars :
                    (last'.op \in CharacterOps /\ last'.who # c) =>
                        /\ conversation_history'[c] = conversation_history[c]
                        /\ char_prompt'[c] = char_prompt[c]
                        /\ char_generator'[c] = char_generator[c]
              /\ last'.op = "get_conversation_history" =>
                    /\ held_history'.list = conversation_history[last'.who]
                    /\ UNCHANGED chat_vars
              /\ last'.op = "caller_append" =>
                    /\ Len(held_history'.list) = Len(held_history.list) + 1
                    /\ UNCHANGED chat_vars
        /\ app = "voice_game" =>
              /\ last'.op \in FirstGameOps => UNCHANGED second_game
              /\ last'.op \in SecondGameOps => UNCHANGED game_vars
      ]_vars

\* C30 witness: the caller has appended to the list it got from a character
\* with one response, and the character's history still holds that one response
C30_Witness ==
    /\ last.op = "caller_append" /\ held_history.who \in Chars
    /\ Len(conversation_history[held_history.who]) = 1
    /\ Len(held_history.list) = 2

====
